---- MODULE Spec2Model ----
(***************************************************************************)
(* A model of comfortablynick/provision: the scoped working-directory      *)
(* context (utils.chdir), the apt adapter with its process-wide            *)
(* CACHE_UPDATED flag (apt.py), the installer routines (install.py), the   *)
(* CLI entry point (cli.py) and the filesystem utilities (utils.mkdir_p,   *)
(* utils.rmtree).                                                          *)
(***************************************************************************)
EXTENDS Integers, Sequences, FiniteSets, TLC

VARIABLES
    \* ---- utils.chdir: the scoped working-directory context
    cwd,        \* the process's working directory (an absolute path)
    stack,      \* the live chdir generators, outermost first
    mode,       \* "body" | "return" | "raise" | "done": how control is moving
    err,        \* the exception in flight ("none" when there is none)
    lastEnter,  \* what the most recent `with chdir(...)` did on entry (history)
    lastExit,   \* what the most recent block exit did (history)
    \* ---- the process: cli.py, apt.py, install.py
    command,        \* what the process runs: a CLI command, or "import" when
                    \* the package's functions are called directly
    namespace,      \* the parsed arguments handed to the dispatched function
    pkgFile,        \* ~/.config/shell/provision/apt_package
    CACHE_UPDATED,  \* apt.CACHE_UPDATED
    dirs,           \* the directories that exist
    pc,             \* "start" | "ran" | "next" | "done" | "crashed"
    exitStatus,     \* the exit status of the process once it has ended
    nOps,           \* operations dispatched so far
    refreshes,      \* `sudo apt update -y` handed to utils.run so far (history)
    updCalls,       \* calls of apt._update_cache so far (history)
    last,           \* the most recent operation and what it did (history)
    \* ---- the filesystem utilities: utils.mkdir_p, utils.rmtree
    files,      \* the regular files that exist (`dirs` holds the directories)
    ro,         \* the entries without write permission (the read-only ones)
    platform,   \* "posix" | "windows": whose rules removal follows
    fsOp,       \* the utility call in progress or just finished
    calls,      \* its activation frames, outermost first; <<>> once it is over
    fsExc,      \* the exception it raised to its caller ("none" if none)
    before,     \* the filesystem when it was called (history)
    prev,       \* the call before it and what that did (history)
    handler,    \* the latest run of handle_remove_readonly (history)
    warned,     \* ResourceWarnings emitted during the call (history)
    nFsOps,     \* utility calls made so far
    other,      \* what another process did to the filesystem during the
                \* mkdir_p call, and what os.mkdir answered (history)
    \* ---- git.py: git_clone, clone_git_repos, github_latest_release
    gitEnv,         \* what the function finds: token file, PATH, ~/git, the
                    \* release's assets, the library's totalCount
    relArgs,        \* the namespace handed to github_latest_release
    relPc,          \* "start" | "prompt" | "done" | "crashed"
    menu,           \* the numbered asset lines printed so far
    prompts,        \* calls of input() so far
    choice,         \* the latest answer to the prompt
    file,           \* the number of the asset chosen (0: none)
    relRet,         \* the return value (-1: none yet)
    relExc,         \* the exception github_latest_release raised
    downloaded,     \* the asset written to args.dest (0: none)
    defaultArgs,    \* the list object that is git_clone's default `args`
    clones,         \* the git_clone calls so far and what each ran (history)
    gitRet          \* how the latest git.py entry point ended (history)

chVars == <<cwd, stack, mode, err, lastEnter, lastExit>>

prVars ==
    <<command, namespace, pkgFile, CACHE_UPDATED, dirs, pc, exitStatus, nOps,
      refreshes, updCalls, last>>

\* the process variables other than the directories
prRest ==
    <<command, namespace, pkgFile, CACHE_UPDATED, pc, exitStatus, nOps,
      refreshes, updCalls, last>>

fsVars ==
    <<files, ro, platform, fsOp, calls, fsExc, before, prev, handler, warned,
      nFsOps>>

gitVars ==
    <<gitEnv, relArgs, relPc, menu, prompts, choice, file, relRet, relExc,
      downloaded, defaultArgs, clones, gitRet>>

vars == <<chVars, prVars, fsVars, other, gitVars>>

(***************************************************************************)
(* Paths.  A directory is the sequence of its segments from the root.      *)
(* A chdir argument is None, or a string: absolute or relative segments.   *)
(***************************************************************************)
Root == <<>>
Tmp == <<"tmp">>
Fish == <<"tmp", "fish">>
FishBuild == <<"tmp", "fish", "build">>
Home == <<"home">>

\* the directories that exist while the chdir blocks run
ExistingDirs == {Root, Tmp, Fish, FishBuild, Home}

NonePath == [kind |-> "none", abs |-> FALSE, segs |-> <<>>]
EmptyStr == [kind |-> "str", abs |-> FALSE, segs |-> <<>>]
AbsPath(s) == [kind |-> "str", abs |-> TRUE, segs |-> s]
RelPath(s) == [kind |-> "str", abs |-> FALSE, segs |-> s]

\* the arguments the model passes to chdir
ChdirArgs ==
    {NonePath, EmptyStr, AbsPath(Tmp), AbsPath(Fish), AbsPath(Home),
     RelPath(<<"build">>), RelPath(<<"fish">>), AbsPath(<<"missing">>)}

\* python truthiness of the argument: `not path`
Falsy(path) == path.kind = "none" \/ (~path.abs /\ path.segs = <<>>)

\* os.chdir(str(path)): where the argument leads from directory `from`
Resolve(from, path) == IF path.abs THEN path.segs ELSE from \o path.segs

MaxDepth == 3

NoEnter == [seen |-> FALSE, path |-> NonePath, before |-> Root, after |-> Root,
            error |-> "none", ran |-> FALSE]

NoExit == [kind |-> "none", entry |-> Root, target |-> Root, after |-> Root, depth |-> 0]

\* the directory the `finally` clause of chdir goes back to
RestoreStart(frame) == Root
chdir_finally(frame) == frame.prev_cwd

\* a frame of the generator: prev_cwd is the code's local; entry and target
\* are history (the directory before the block, the directory it set)
Frame(from, path) ==
    [prev_cwd |-> from, entry |-> from, target |-> Resolve(from, path)]

\* a raise out of chdir itself, before its `yield`: it lands in the enclosing
\* code as an exception in flight
RaiseAtEntry(path, e) ==
    /\ mode' = "raise"
    /\ err' = e
    /\ lastEnter' = [seen |-> TRUE, path |-> path, before |-> cwd, after |-> cwd,
                     error |-> e, ran |-> FALSE]
    /\ UNCHANGED <<cwd, stack, lastExit>>

\* `with chdir(path):` reached in running code
Enter(path) ==
    /\ mode = "body"
    /\ Len(stack) < MaxDepth
    /\ IF Falsy(path)
       THEN \* the generator returns without yielding: contextlib's __enter__
            \* raises RuntimeError("generator didn't yield")
            RaiseAtEntry(path, "RuntimeError")
       ELSE IF Resolve(cwd, path) \notin ExistingDirs
       THEN RaiseAtEntry(path, "FileNotFoundError")
       ELSE /\ stack' = Append(stack, Frame(cwd, path))
            /\ cwd' = Resolve(cwd, path)
            /\ lastEnter' = [seen |-> TRUE, path |-> path, before |-> cwd,
                             after |-> Resolve(cwd, path), error |-> "none",
                             ran |-> TRUE]
            /\ UNCHANGED <<mode, err, lastExit>>

\* the innermost block is left: its generator's `finally` runs
PopFrame(kind) ==
    LET f == stack[Len(stack)] IN
    /\ cwd' = chdir_finally(f)
    /\ stack' = SubSeq(stack, 1, Len(stack) - 1)
    /\ lastExit' = [kind |-> kind, entry |-> f.entry, target |-> f.target,
                    after |-> chdir_finally(f), depth |-> Len(stack)]

\* the body of the innermost block runs to its end
ExitNormal ==
    /\ mode = "body"
    /\ stack # <<>>
    /\ PopFrame("normal")
    /\ UNCHANGED <<mode, err, lastEnter>>

\* `return` inside the innermost block: every enclosing block is left in turn
Return ==
    /\ mode = "body"
    /\ stack # <<>>
    /\ mode' = "return"
    /\ UNCHANGED <<cwd, stack, err, lastEnter, lastExit>>

\* an error raised by a statement of the innermost block
Raise ==
    /\ mode = "body"
    /\ stack # <<>>
    /\ mode' = "raise"
    /\ err' = "OSError"
    /\ UNCHANGED <<cwd, stack, lastEnter, lastExit>>

\* a return or an exception in flight leaves the next enclosing block
Unwind ==
    /\ mode \in {"return", "raise"}
    /\ stack # <<>>
    /\ PopFrame(mode)
    /\ UNCHANGED <<mode, err, lastEnter>>

\* the function is left: by its end, its return, or the exception
Finish ==
    /\ mode # "done"
    /\ stack = <<>>
    /\ mode' = "done"
    /\ UNCHANGED <<cwd, stack, err, lastEnter, lastExit>>

(***************************************************************************)
(* The process: external commands, the apt adapter, the installers.        *)
(* A routine is an operator on a record `st` of everything it reads and    *)
(* writes; a statement is skipped once the routine has returned (st.done)  *)
(* or an exception is in flight (st.exc).                                   *)
(*   cmds      the external commands handed to utils.run, in order          *)
(*   dirs      the directories that exist                                   *)
(*   cwd       the working directory                                        *)
(*   cache     apt.CACHE_UPDATED                                            *)
(*   onPath    the names shutil.which finds                                 *)
(*   fault     what goes wrong with external commands during this call     *)
(*   pkgFile   ~/.config/shell/provision/apt_package                        *)
(*   reads     how often the package-list file was opened                   *)
(*   updCalls  how often _update_cache was called                           *)
(***************************************************************************)
Live(st) == ~st.done /\ st.exc = "none"

\* the one element of a singleton.  The routines below are written as
\* The({e(st) : st \in {st0}}): e is evaluated for the value of st0.
The(S) == CHOOSE x \in S : TRUE

\* `return v`
ret(st0, v) ==
    The({IF Live(st) THEN [st EXCEPT !.done = TRUE, !.ret = v] ELSE st :
         st \in {st0}})

\* `raise e`
raise(st0, e) ==
    The({IF Live(st) THEN [st EXCEPT !.exc = e] ELSE st : st \in {st0}})

\* back in the caller after a call: the callee's return no longer skips
\* statements, an exception still does
returned(st) == [st EXCEPT !.done = FALSE]

\* shutil.which(name)
which(st, name) == name \in st.onPath

\* what can go wrong with the external commands of one call: an executable
\* that is not there (subprocess.run raises FileNotFoundError) or a command
\* that exits non-zero
NoFault == [missing |-> {}, failing |-> {}]
Missing(exe) == [missing |-> {exe}, failing |-> {}]
Failing(key) == [missing |-> {}, failing |-> {key}]
\* the faults tried on the apt adapter's own commands
AptFaults == {NoFault, Missing("sudo"), Failing(<<"sudo", "apt">>)}

\* the faults tried on an installer routine: those its commands can meet
Faults(prog) ==
    {NoFault, Missing("sudo"), Missing("git"), Failing(<<"git", "clone">>)}
    \cup (IF prog \in {"ctags", "tmux", "mosh", "vcprompt"}
          THEN {Failing(<<"./configure">>)} ELSE {})
    \cup (IF prog \in {"tmux", "nnn"}
          THEN {Failing(<<"git", "checkout">>)} ELSE {})
    \cup (IF prog = "neovim"
          THEN {Failing(<<"cmake", "../third-party">>)} ELSE {})
    \cup (IF prog \in {"todo", "vcprompt"}
          THEN {Failing(<<"sudo", "make">>), Failing(<<"hg", "clone">>)} ELSE {})

\* the first two words of a command name it
Key(cmd) == SubSeq(cmd, 1, IF Len(cmd) < 2 THEN Len(cmd) ELSE 2)

\* the exit status of an external command
ExitCode(st, cmd) == IF Key(cmd) \in st.fault.failing THEN 1 ELSE 0

\* utils.run(cmd, check=...): cmd is the argument vector (a string command is
\* split into its words); `creates` are the directories the command makes
\* when it succeeds
run_check(st0, cmd, check, creates) ==
    The({IF ~Live(st) THEN st
         ELSE IF cmd[1] \in st.fault.missing
         THEN [st EXCEPT !.cmds = Append(@, cmd), !.exc = "FileNotFoundError"]
         ELSE IF check /\ ExitCode(st, cmd) # 0
         THEN [st EXCEPT !.cmds = Append(@, cmd), !.rc = ExitCode(st, cmd),
                         !.exc = "CalledProcessError"]
         ELSE [st EXCEPT !.cmds = Append(@, cmd), !.rc = ExitCode(st, cmd),
                         !.dirs = IF ExitCode(st, cmd) = 0
                                  THEN @ \cup creates ELSE @] :
         st \in {st0}})

run(st, cmd) == run_check(st, cmd, FALSE, {})

run_mk(st, cmd, creates) == run_check(st, cmd, FALSE, creates)

IsPrefix(a, b) == Len(a) <= Len(b) /\ SubSeq(b, 1, Len(a)) = a

\* the ancestors of a directory, itself included
Ancestors(d) == {SubSeq(d, 1, n) : n \in 0..Len(d)}

\* utils.rmtree(directory, ignore_errors) on a tree the user owns
rmtree(st0, directory, ignore_errors) ==
    The({IF ~Live(st) THEN st
         ELSE IF directory \in st.dirs
         THEN [st EXCEPT !.dirs = {d \in @ : ~IsPrefix(directory, d)}]
         ELSE IF ignore_errors THEN st
         ELSE raise(st, "FileNotFoundError") :
         st \in {st0}})

\* utils.mkdir_p(newdir) where no regular file is in the way
mkdir_p_tmp(st0, newdir) ==
    The({IF ~Live(st) THEN st
         ELSE [st EXCEPT !.dirs = @ \cup Ancestors(newdir)] :
         st \in {st0}})

\* `with chdir(path):` up to the generator's yield
chdir_enter(st0, path) ==
    The({IF ~Live(st) THEN st
         ELSE IF Falsy(path) THEN raise(st, "RuntimeError")
         ELSE IF Resolve(st.cwd, path) \notin st.dirs
         THEN raise(st, "FileNotFoundError")
         ELSE [st EXCEPT !.cwd = Frame(st.cwd, path).target] :
         st \in {st0}})

\* the end of `with chdir(path):` entered from st0, whose body left b: the
\* generator's finally runs if the block was entered, however it is left
chdir_exit(st0, path, b) ==
    The({IF Live(st) /\ Live(chdir_enter(st, path))
         THEN [b EXCEPT !.cwd = chdir_finally(Frame(st.cwd, path))]
         ELSE b :
         st \in {st0}})

(***************************************************************************)
(* apt.py                                                                  *)
(***************************************************************************)
AptUpdateCmd == <<"sudo", "apt", "update", "-y">>

\* a slip: the flag is never set
_update_cache_noflag(st0) ==
    The({IF ~Live(st) THEN st
         ELSE IF ~st.cache
         THEN run([st EXCEPT !.updCalls = @ + 1], AptUpdateCmd)
         ELSE [st EXCEPT !.updCalls = @ + 1] :
         st \in {st0}})

\* the statements of _update_cache after run(cmd)
SetCacheUpdated(st0) ==
    The({IF Live(st) THEN [st EXCEPT !.cache = TRUE] ELSE st : st \in {st0}})

_update_cache(st0) ==
    The({IF ~Live(st) THEN st
         ELSE IF ~st.cache
         THEN SetCacheUpdated(run([st EXCEPT !.updCalls = @ + 1], AptUpdateCmd))
         ELSE [st EXCEPT !.updCalls = @ + 1] :
         st \in {st0}})

\* `return cmd.returncode`
ret_rc(st0) == The({ret(st, st.rc) : st \in {st0}})

_list_upgradable(st, args) ==
    ret_rc(run(_update_cache(st), <<"apt", "list", "--upgradable">>))

_upgrade(st, args) ==
    ret_rc(run(_update_cache(st), <<"sudo", "apt", "full-upgrade", "-y">>))

\* the tail of apt.install: the install command inside try/except
apt_install_run(st0, packages) ==
    The({IF Live(st0) /\ st.exc = "FileNotFoundError"
         THEN ret([st EXCEPT !.exc = "none"], 1)
         ELSE ret(st, 0) :
         st \in {run(st0, <<"sudo", "apt", "install", "-y">> \o packages)}})

\* apt.install(args, pkgs) after its call of _update_cache
apt_install_body(st0, args, pkgs) ==
    The({IF ~Live(st) THEN st
         ELSE IF ~which(st, "apt-get") THEN ret(st, 1)
         ELSE IF ~args.hasPackages THEN raise(st, "AttributeError")
         ELSE IF Len(pkgs \o args.packages) = 0
         THEN IF ~st.pkgFile.present
              THEN ret([st EXCEPT !.reads = @ + 1], 1)
              ELSE apt_install_run([st EXCEPT !.reads = @ + 1],
                                   st.pkgFile.lines)
         ELSE apt_install_run(st, pkgs \o args.packages) :
         st \in {st0}})

\* apt.install(args, pkgs)
apt_install(st, args, pkgs) == apt_install_body(_update_cache(st), args, pkgs)

\* apt.update(args)
apt_update(st, args) ==
    ret_rc(run(run_check(returned(apt_install(returned(_upgrade(
                   _update_cache(st), args)), args, <<>>)),
                   <<"sudo", "apt", "autoremove">>, TRUE, {}),
               <<"sudo", "apt", "purge">>))

(***************************************************************************)
(* install.py: the installer routines                                      *)
(***************************************************************************)
Programs ==
    {"ctags", "lpass", "fish", "tmux", "mosh", "neovim", "nnn", "todo", "vcprompt"}

\* the name each routine looks up with shutil.which
Binary(prog) ==
    CASE prog = "neovim" -> "nvim"
      [] prog = "todo" -> "todo.sh"
      [] OTHER -> prog

\* the temporary build directory of each routine
TmpDir(prog) == <<"tmp", IF prog = "neovim" THEN "nvim" ELSE prog>>

\* the build dependencies each routine hands to apt.install
Deps(prog) ==
    CASE prog = "lpass" ->
           <<"bash-completion", "build-essential", "cmake", "libcurl4",
             "libcurl4-openssl-dev", "libssl-dev", "libxml2", "libxml2-dev",
             "libssl1.1", "pkg-config", "ca-certificates", "xclip">>
      [] prog = "fish" ->
           <<"build-essential", "ncurses-dev", "libncurses5-dev", "gettext",
             "autoconf", "doxygen">>
      [] prog = "tmux" ->
           <<"git", "automake", "build-essential", "pkg-config", "libevent-dev",
             "libncurses5-dev">>
      [] prog = "mosh" ->
           <<"protobuf-compiler", "libprotobuf-dev", "libutempter-dev",
             "libboost-dev", "libio-pty-perl", "libssl-dev", "pkg-config",
             "autoconf">>
      [] prog = "neovim" ->
           <<"gperf", "libluajit-5.1-dev", "libunibilium-dev", "libmsgpack-dev",
             "libtermkey-dev", "libvterm-dev", "libjemalloc-dev">>
      [] prog = "nnn" -> <<"pkg-config", "libncursesw5-dev">>
      [] OTHER -> <<>>

\* `git clone <url> <tmp>` (`hg clone` for vcprompt): makes the directory
Clone(st, vcs, url, tmp) == run_mk(st, <<vcs, "clone", url, tmp>>, {tmp})

\* a slip: the force flag is read the wrong way round
AlreadyInstalledNoForce(st, args, prog) == which(st, Binary(prog)) /\ args.force

\* the check every routine starts with
AlreadyInstalled(st, args, prog) == which(st, Binary(prog)) /\ ~args.force

install_ctags(st, args) ==
    IF AlreadyInstalled(st, args, "ctags") THEN ret(st, 1)
    ELSE
    LET ctags_tmp == TmpDir("ctags")
        s1 == rmtree(st, ctags_tmp, TRUE)
        s2 == Clone(s1, "git", "https://github.com/universal-ctags/ctags.git",
                    ctags_tmp)
        b0 == chdir_enter(s2, AbsPath(ctags_tmp))
        b1 == run(b0, <<"./autogen.sh">>)
        b2 == run(b1, <<"./configure">>)
        b3 == IF b2.rc = 0
              THEN run(run(b2, <<"make">>), <<"sudo", "make", "install">>)
              ELSE ret(b2, 1)
        s3 == chdir_exit(s2, AbsPath(ctags_tmp), b3)
        s4 == rmtree(s3, ctags_tmp, TRUE)
    IN ret(s4, 0)

install_lpass(st, args) ==
    IF AlreadyInstalled(st, args, "lpass") THEN ret(st, 1)
    ELSE
    LET tmp_dir == TmpDir("lpass")
        s0 == returned(apt_install(st, args, Deps("lpass")))
        s1 == rmtree(s0, tmp_dir, TRUE)
        s2 == Clone(s1, "git", "https://github.com/lastpass/lastpass-cli.git",
                    tmp_dir)
        b0 == chdir_enter(s2, AbsPath(tmp_dir))
        b1 == run(run(b0, <<"make">>), <<"sudo", "make", "install">>)
        s3 == chdir_exit(s2, AbsPath(tmp_dir), b1)
        s4 == rmtree(s3, tmp_dir, TRUE)
    IN ret(s4, 0)

install_fish(st, args) ==
    IF AlreadyInstalled(st, args, "fish") THEN ret(st, 1)
    ELSE
    LET fish_tmp == TmpDir("fish")
        s0 == returned(apt_install(st, args, Deps("fish")))
        s1 == rmtree(s0, fish_tmp, TRUE)
        s2 == Clone(s1, "git", "https://github.com/fish-shell/fish-shell.git",
                    fish_tmp)
        b0 == chdir_enter(s2, AbsPath(fish_tmp))
        b1 == run_mk(b0, <<"mkdir", "build">>, {b0.cwd \o <<"build">>})
        c0 == chdir_enter(b1, RelPath(<<"build">>))
        c1 == run(run(run(c0, <<"cmake", "..">>), <<"make">>),
                  <<"sudo", "make", "install">>)
        b2 == chdir_exit(b1, RelPath(<<"build">>), c1)
        s3 == chdir_exit(s2, AbsPath(fish_tmp), b2)
        s4 == rmtree(s3, fish_tmp, TRUE)
    IN ret(s4, 0)

install_tmux(st, args) ==
    IF AlreadyInstalled(st, args, "tmux") THEN ret(st, 1)
    ELSE
    LET tmux_tmp == TmpDir("tmux")
        s0 == returned(apt_install(st, args, Deps("tmux")))
        s1 == rmtree(s0, tmux_tmp, TRUE)
        s2 == Clone(s1, "git", "https://github.com/tmux/tmux.git", tmux_tmp)
        b0 == chdir_enter(s2, AbsPath(tmux_tmp))
        b1 == run(b0, <<"git", "describe", "--tags", "--abbrev=0">>)
        b2 == run(b1, <<"git", "checkout", "<tag>">>)
        b3 == run(b2, <<"sh", "autogen.sh">>)
        b4 == run(b3, <<"./configure">>)
        b5 == IF b4.rc = 0
              THEN run(run(b4, <<"make">>), <<"sudo", "make", "install">>)
              ELSE ret(b4, 1)
        s3 == chdir_exit(s2, AbsPath(tmux_tmp), b5)
        s4 == rmtree(s3, tmux_tmp, TRUE)
    IN ret(s4, 0)

install_mosh(st, args) ==
    IF AlreadyInstalled(st, args, "mosh") THEN ret(st, 1)
    ELSE
    LET mosh_tmp == TmpDir("mosh")
        s0 == returned(apt_install(st, args, Deps("mosh")))
        s1 == rmtree(s0, mosh_tmp, TRUE)
        s2 == Clone(s1, "git", "https://github.com/keithw/mosh.git", mosh_tmp)
        b0 == chdir_enter(s2, AbsPath(mosh_tmp))
        b1 == run(b0, <<"sh", "autogen.sh">>)
        b2 == run(b1, <<"./configure">>)
        b3 == IF b2.rc = 0 THEN run(b2, <<"make">>) ELSE b2
        b4 == run(b3, <<"sudo", "make", "install">>)
        s3 == chdir_exit(s2, AbsPath(mosh_tmp), b4)
        s4 == rmtree(s3, mosh_tmp, TRUE)
    IN ret(s4, 0)

install_neovim(st, args) ==
    IF AlreadyInstalled(st, args, "neovim") THEN ret(st, 1)
    ELSE
    LET tmp_dir == TmpDir("neovim")
        deps_dir == tmp_dir \o <<".deps">>
        s0 == returned(apt_install(st, args, Deps("neovim")))
        s1 == rmtree(s0, tmp_dir, TRUE)
        s2 == Clone(s1, "git", "https://github.com/neovim/neovim.git", tmp_dir)
        s3 == mkdir_p_tmp(s2, deps_dir)
        b0 == chdir_enter(s3, AbsPath(deps_dir))
        cmake == run(b0, <<"cmake", "../third-party">>)
        b1 == IF cmake.rc = 0 THEN run(cmake, <<"make">>) ELSE cmake
        s4 == chdir_exit(s3, AbsPath(deps_dir), b1)
        c0 == chdir_enter(s4, AbsPath(tmp_dir))
        c1 == run(run(run(c0, <<"make", "distclean">>),
                      <<"make", "CMAKE_BUILD_TYPE=RelWithDebInfo">>),
                  <<"sudo", "make", "install">>)
        s5 == chdir_exit(s4, AbsPath(tmp_dir), c1)
        s6 == rmtree(s5, tmp_dir, TRUE)
    IN ret(s6, 0)

install_nnn(st, args) ==
    IF AlreadyInstalled(st, args, "nnn") THEN ret(st, 1)
    ELSE
    LET nnn_tmp == TmpDir("nnn")
        s0 == returned(apt_install(st, args, Deps("nnn")))
        s1 == rmtree(s0, nnn_tmp, TRUE)
        s2 == Clone(s1, "git", "https://github.com/jarun/nnn.git", nnn_tmp)
        b0 == chdir_enter(s2, AbsPath(nnn_tmp))
        b1 == run(b0, <<"git", "describe", "--tags", "--abbrev=0">>)
        b2 == run(b1, <<"git", "checkout", "<tag>">>)
        b3 == IF b2.rc = 0
              THEN run(run(b2, <<"make">>), <<"sudo", "make", "install">>)
              ELSE b2
        s3 == chdir_exit(s2, AbsPath(nnn_tmp), b3)
        s4 == rmtree(s3, nnn_tmp, TRUE)
    IN ret(s4, 0)

install_todo(st, args) ==
    IF AlreadyInstalled(st, args, "todo") THEN ret(st, 1)
    ELSE
    LET todo_tmp == TmpDir("todo")
        s1 == rmtree(st, todo_tmp, TRUE)
        s2 == Clone(s1, "git", "https://github.com/todotxt/todo.txt-cli.git",
                    todo_tmp)
        b0 == chdir_enter(s2, AbsPath(todo_tmp))
        install == run(run(b0, <<"make">>), <<"sudo", "make", "install">>)
        s3 == chdir_exit(s2, AbsPath(todo_tmp), install)
        s4 == rmtree(s3, todo_tmp, FALSE)
    IN ret(s4, install.rc)

install_vcprompt(st, args) ==
    IF AlreadyInstalled(st, args, "vcprompt") THEN ret(st, 1)
    ELSE
    LET vcp_tmp == TmpDir("vcprompt")
        s1 == rmtree(st, vcp_tmp, TRUE)
        s2 == Clone(s1, "hg", "https://bitbucket.org/gward/vcprompt", vcp_tmp)
        b0 == chdir_enter(s2, AbsPath(vcp_tmp))
        install == run(run(run(run(b0, <<"autoconf">>), <<"./configure">>),
                           <<"make">>), <<"sudo", "make", "install">>)
        s3 == chdir_exit(s2, AbsPath(vcp_tmp), install)
        s4 == rmtree(s3, vcp_tmp, FALSE)
    IN ret(s4, install.rc)

\* globals()[f"install_{prog}"](args)
Installer(st, args, prog) ==
    CASE prog = "ctags" -> install_ctags(st, args)
      [] prog = "lpass" -> install_lpass(st, args)
      [] prog = "fish" -> install_fish(st, args)
      [] prog = "tmux" -> install_tmux(st, args)
      [] prog = "mosh" -> install_mosh(st, args)
      [] prog = "neovim" -> install_neovim(st, args)
      [] prog = "nnn" -> install_nnn(st, args)
      [] prog = "todo" -> install_todo(st, args)
      [] prog = "vcprompt" -> install_vcprompt(st, args)

(***************************************************************************)
(* The process as a state machine: cli.cli() dispatching one command, or   *)
(* code that imports the package and calls its functions.                  *)
(***************************************************************************)
\* no chdir block of the step-by-step model is open
ChdirIdle ==
    /\ stack = <<>>
    /\ mode = "body"
    /\ err = "none"
    /\ lastEnter = NoEnter
    /\ lastExit = NoExit

MaxOps == 2

NoArgs == [force |-> FALSE, hasPackages |-> FALSE, packages |-> <<>>]

NoLast ==
    [op |-> "none", prog |-> "none", onPath |-> {}, cmds |-> <<>>,
     returned |-> FALSE, ret |-> 0, exc |-> "none", reads |-> 0,
     dirsBefore |-> {}, cacheBefore |-> FALSE, updCalls |-> 0,
     fault |-> NoFault]

\* the process model at rest, the directories aside
ProcessHalted ==
    /\ command = "none"
    /\ namespace = NoArgs
    /\ pkgFile = [present |-> FALSE, lines |-> <<>>]
    /\ CACHE_UPDATED = FALSE
    /\ pc = "done"
    /\ exitStatus = 0
    /\ nOps = 0
    /\ refreshes = 0
    /\ updCalls = 0
    /\ last = NoLast

\* the process model at rest (while only the chdir blocks are looked at)
ProcessIdle ==
    /\ ProcessHalted
    /\ dirs = ExistingDirs

NoFs == [dirs |-> {}, files |-> {}, ro |-> {}]

NoPath == [segs |-> <<>>, slash |-> FALSE]

NoFsOp == [name |-> "none", path |-> NoPath, ignore_errors |-> FALSE]

NoPrev == [name |-> "none", path |-> NoPath, exc |-> "none", made |-> 0]

NoHandler ==
    [func |-> "none", path |-> <<>>, errno |-> "none", retried |-> FALSE,
     retry |-> "none", warned |-> FALSE, outcome |-> "none"]

\* the other process has not touched the filesystem
NoOther == [made |-> {}, removed |-> {}, errnos |-> <<>>]

\* no filesystem utility is looked at
FsIdle ==
    /\ files = {}
    /\ ro = {}
    /\ platform = "posix"
    /\ fsOp = NoFsOp
    /\ calls = <<>>
    /\ fsExc = "none"
    /\ before = NoFs
    /\ prev = NoPrev
    /\ handler = NoHandler
    /\ warned = 0
    /\ nFsOps = 0
    /\ other = NoOther

NoGitEnv ==
    [token |-> FALSE, onPath |-> {}, gitDir |-> FALSE, assets |-> 0,
     totalCountNone |-> FALSE]

NoRelArgs == [force |-> FALSE, hasDest |-> FALSE]

\* the list git_clone's `args` defaults to, as the def statement builds it
FreshArgs == <<"--recursive">>

\* no function of git.py has been called
GitIdle ==
    /\ gitEnv = NoGitEnv
    /\ relArgs = NoRelArgs
    /\ relPc = "start"
    /\ menu = 0
    /\ prompts = 0
    /\ choice = ""
    /\ file = 0
    /\ relRet = 0 - 1
    /\ relExc = "none"
    /\ downloaded = 0
    /\ defaultArgs = FreshArgs
    /\ clones = <<>>
    /\ gitRet = "none"

\* the record a routine starts from
St(onPath, fault) ==
    [cmds |-> <<>>, dirs |-> dirs, cwd |-> cwd, cache |-> CACHE_UPDATED,
     onPath |-> onPath, fault |-> fault, pkgFile |-> pkgFile, reads |-> 0,
     updCalls |-> 0, exc |-> "none", done |-> FALSE, ret |-> 0, rc |-> 0]

Count(cmds, cmd) == Cardinality({i \in DOMAIN cmds : cmds[i] = cmd})

\* what the routine did becomes the process's state
Commit(op, prog, onPath, s) ==
    /\ CACHE_UPDATED' = s.cache
    /\ dirs' = s.dirs
    /\ cwd' = s.cwd
    /\ refreshes' = refreshes + Count(s.cmds, AptUpdateCmd)
    /\ updCalls' = updCalls + s.updCalls
    /\ nOps' = nOps + 1
    /\ last' = [op |-> op, prog |-> prog, onPath |-> onPath, cmds |-> s.cmds,
                returned |-> s.done, ret |-> s.ret, exc |-> s.exc,
                reads |-> s.reads, dirsBefore |-> dirs,
                cacheBefore |-> CACHE_UPDATED, updCalls |-> s.updCalls,
                fault |-> s.fault]
    /\ UNCHANGED <<command, namespace, pkgFile, stack, mode, err, lastEnter, lastExit>>

\* cli.cli(): namespace.func(namespace) inside `except AttributeError`, then `return 0`;
\* any other exception leaves the interpreter with a traceback
cli(s) ==
    IF s.exc \in {"none", "AttributeError"}
    THEN /\ pc' = "done"
         /\ exitStatus' = 0
    ELSE /\ pc' = "crashed"
         /\ exitStatus' = 1

\* what shutil.which finds when a routine for `prog` runs
OnPathChoices(prog) == SUBSET {"apt-get", Binary(prog)}

\* `provision apt install [packages...]`
CliAptInstall(onPath, fault) ==
    /\ command = "apt install"
    /\ pc = "start"
    /\ \E s \in {apt_install(St(onPath, fault), namespace, <<>>)} :
         /\ Commit("apt.install", "none", onPath, s)
         /\ cli(s)

\* `provision apt update [packages...]`
CliAptUpdate(onPath, fault) ==
    /\ command = "apt update"
    /\ pc = "start"
    /\ \E s \in {apt_update(St(onPath, fault), namespace)} :
         /\ Commit("apt.update", "none", onPath, s)
         /\ cli(s)

\* `provision install PROGRAM...`: one turn of the loop of install.main
CliInstall(prog, onPath, fault) ==
    /\ command = "install"
    /\ pc \in {"start", "next"}
    /\ \E s \in {Installer(St(onPath, fault), namespace, prog)} :
         /\ Commit("install", prog, onPath, s)
         /\ IF s.exc = "none"
            THEN /\ pc' = "ran"
                 /\ UNCHANGED exitStatus
            ELSE cli(s)

\* the loop of install.main goes on to the next name of args.install
CliInstallNext ==
    /\ command = "install"
    /\ pc = "ran"
    /\ nOps < MaxOps
    /\ pc' = "next"
    /\ last' = NoLast
    /\ UNCHANGED <<chVars, command, namespace, pkgFile, CACHE_UPDATED, dirs,
                   exitStatus, nOps, refreshes, updCalls>>

\* the loop of install.main has gone through args.install
CliInstallEnd ==
    /\ command = "install"
    /\ pc = "ran"
    /\ pc' = "done"
    /\ exitStatus' = 0
    /\ UNCHANGED <<chVars, command, namespace, pkgFile, CACHE_UPDATED, dirs,
                   nOps, refreshes, updCalls, last>>

\* a call of one of the package's functions by importing code; an exception
\* it does not catch ends the process
Call(op, prog, onPath, s0) ==
    /\ command = "import"
    /\ pc \in {"start", "next"}
    /\ \E s \in {s0} :
         /\ Commit(op, prog, onPath, s)
         /\ IF s.exc = "none"
            THEN /\ pc' = "ran"
                 /\ UNCHANGED exitStatus
            ELSE /\ pc' = "crashed"
                 /\ exitStatus' = 1

\* the importing code goes on to its next call
CallNext ==
    /\ command = "import"
    /\ pc = "ran"
    /\ nOps < MaxOps
    /\ pc' = "next"
    /\ last' = NoLast
    /\ UNCHANGED <<chVars, command, namespace, pkgFile, CACHE_UPDATED, dirs,
                   exitStatus, nOps, refreshes, updCalls>>

CallAptInstall(onPath, fault) ==
    Call("apt.install", "none", onPath,
         apt_install(St(onPath, fault), namespace, <<>>))

CallAptUpdate(onPath, fault) ==
    Call("apt.update", "none", onPath, apt_update(St(onPath, fault), namespace))

CallUpgrade(onPath, fault) ==
    Call("apt._upgrade", "none", onPath, _upgrade(St(onPath, fault), namespace))

CallListUpgradable(onPath, fault) ==
    Call("apt._list_upgradable", "none", onPath,
         _list_upgradable(St(onPath, fault), namespace))

CallInstaller(prog, onPath, fault) ==
    Call("install", prog, onPath, Installer(St(onPath, fault), namespace, prog))

\* the importing code is done
CallEnd ==
    /\ command = "import"
    /\ pc = "ran"
    /\ pc' = "done"
    /\ exitStatus' = 0
    /\ UNCHANGED <<chVars, command, namespace, pkgFile, CACHE_UPDATED, dirs, nOps,
                   refreshes, updCalls, last>>

\* the package-list file: absent, empty, or three names
PkgFiles ==
    {[present |-> FALSE, lines |-> <<>>], [present |-> TRUE, lines |-> <<>>],
     [present |-> TRUE, lines |-> <<"git", "vim", "curl">>]}

\* build_parser(): `apt install` and `apt update` parse `packages`; `install`
\* parses `install` and has no `packages`
ArgsOf(cmd, force, packages) ==
    [force |-> force, hasPackages |-> cmd # "install",
     packages |-> IF cmd = "install" THEN <<>> ELSE packages]

Init ==
    /\ command \in {"apt install", "apt update", "install", "import"}
    /\ \E force \in BOOLEAN, packages \in {<<>>, <<"htop">>} :
         namespace = ArgsOf(command, force, packages)
    /\ pkgFile \in PkgFiles
    /\ CACHE_UPDATED = FALSE
    /\ \E stale \in {{}, {TmpDir("ctags")}, {TmpDir("tmux")}} :
         dirs = {Root, Tmp, Home} \cup stale
    /\ cwd = Home
    /\ pc = "start"
    /\ exitStatus = 0
    /\ nOps = 0
    /\ refreshes = 0
    /\ updCalls = 0
    /\ last = NoLast
    /\ ChdirIdle
    /\ FsIdle
    /\ GitIdle

AptOnPath == SUBSET {"apt-get"}

Next ==
    \/ \E onPath \in AptOnPath, fault \in AptFaults : CliAptInstall(onPath, fault) /\ UNCHANGED <<fsVars, other, gitVars>>
    \/ \E onPath \in AptOnPath, fault \in AptFaults : CliAptUpdate(onPath, fault) /\ UNCHANGED <<fsVars, other, gitVars>>
    \/ \E prog \in Programs :
         \E fault \in Faults(prog), onPath \in OnPathChoices(prog) :
           CliInstall(prog, onPath, fault) /\ UNCHANGED <<fsVars, other, gitVars>>
    \/ CliInstallNext /\ UNCHANGED <<fsVars, other, gitVars>>
    \/ CliInstallEnd /\ UNCHANGED <<fsVars, other, gitVars>>
    \/ \E onPath \in AptOnPath, fault \in AptFaults : CallAptInstall(onPath, fault) /\ UNCHANGED <<fsVars, other, gitVars>>
    \/ \E onPath \in AptOnPath, fault \in AptFaults : CallAptUpdate(onPath, fault) /\ UNCHANGED <<fsVars, other, gitVars>>
    \/ \E onPath \in AptOnPath, fault \in AptFaults : CallUpgrade(onPath, fault) /\ UNCHANGED <<fsVars, other, gitVars>>
    \/ \E onPath \in AptOnPath, fault \in AptFaults :
         CallListUpgradable(onPath, fault) /\ UNCHANGED <<fsVars, other, gitVars>>
    \/ \E prog \in Programs :
         \E fault \in Faults(prog), onPath \in OnPathChoices(prog) :
           CallInstaller(prog, onPath, fault) /\ UNCHANGED <<fsVars, other, gitVars>>
    \/ CallNext /\ UNCHANGED <<fsVars, other, gitVars>>
    \/ CallEnd /\ UNCHANGED <<fsVars, other, gitVars>>

Spec == Init /\ [][Next]_vars

ChdirInit ==
    /\ cwd \in {Root, Tmp, Home}
    /\ ChdirIdle
    /\ ProcessIdle
    /\ FsIdle
    /\ GitIdle

ChdirNext ==
    \/ \E path \in ChdirArgs : Enter(path) /\ UNCHANGED <<prVars, fsVars, other, gitVars>>
    \/ ExitNormal /\ UNCHANGED <<prVars, fsVars, other, gitVars>>
    \/ Return /\ UNCHANGED <<prVars, fsVars, other, gitVars>>
    \/ Raise /\ UNCHANGED <<prVars, fsVars, other, gitVars>>
    \/ Unwind /\ UNCHANGED <<prVars, fsVars, other, gitVars>>
    \/ Finish /\ UNCHANGED <<prVars, fsVars, other, gitVars>>

SpecChdir == ChdirInit /\ [][ChdirNext]_vars

(***************************************************************************)
(* The filesystem utilities, utils.mkdir_p and utils.rmtree, one system    *)
(* call at a time.  An entry is the sequence of its segments below the     *)
(* working directory, which exists and which the process may write in.     *)
(* Every entry is readable; `ro` holds the entries that are not writable   *)
(* (on Windows: that carry the read-only attribute).                       *)
(***************************************************************************)
Names == {"a", "b"}

MaxSegs == 3

MaxEntries == 2

MaxFsOps == 2

FsPaths == UNION {[1..k -> Names] : k \in 1..MaxSegs}

Parent(p) == SubSeq(p, 1, Len(p) - 1)

\* the path and the directories above it, below the working directory
Prefixes(p) == {SubSeq(p, 1, n) : n \in 1..Len(p)}

\* the sets of at most n entries in which every entry has its parent
RECURSIVE EntrySets(_)
EntrySets(n) ==
    IF n = 0 THEN {{}}
    ELSE EntrySets(n - 1) \cup
         {x[1] \cup {x[2]} :
            x \in {y \in EntrySets(n - 1) \X FsPaths :
                     Len(y[2]) = 1 \/ Parent(y[2]) \in y[1]}}

\* the filesystem as one value
Fs == [dirs |-> dirs, files |-> files, ro |-> ro]

Exists(fs, p) == p \in fs.dirs \cup fs.files

\* the entries of directory p
Children(fs, p) ==
    {q \in fs.dirs \cup fs.files : Len(q) = Len(p) + 1 /\ Parent(q) = p}

\* os.path.isdir(path); "" is not a directory
isdir(fs, path) == path.segs # <<>> /\ path.segs \in fs.dirs

\* a slip: the regular file in the way is not looked for
isfileNever(fs, path) == FALSE

\* os.path.isfile(path); a trailing slash names no regular file
isfile(fs, path) == ~path.slash /\ path.segs \in fs.files

\* os.path.split(path): "a/b" -> ("a", "b"), "a" -> ("", "a"),
\* "a/b/" -> ("a/b", "")
split(path) ==
    IF path.segs = <<>> THEN [head |-> NoPath, tail |-> ""]
    ELSE IF path.slash
    THEN [head |-> [segs |-> path.segs, slash |-> FALSE], tail |-> ""]
    ELSE [head |-> [segs |-> Parent(path.segs), slash |-> FALSE],
          tail |-> path.segs[Len(path.segs)]]

\* `if head and not os.path.isdir(head)`
MakeParentsNever(fs, head) == FALSE

MakeParents(fs, head) == head.segs # <<>> /\ ~isdir(fs, head)

\* what os.mkdir(p) answers
os_mkdir(fs, p) ==
    IF \E q \in Prefixes(Parent(p)) : q \in fs.files THEN "ENOTDIR"
    ELSE IF Parent(p) # <<>> /\ Parent(p) \notin fs.dirs THEN "ENOENT"
    ELSE IF Exists(fs, p) THEN "EEXIST"
    ELSE IF Parent(p) \in fs.ro THEN "EACCES"
    ELSE "OK"

\* a slip: the directory that appeared meanwhile is an error too
MkdirRaisesExisting(e) == e # "OK"

\* `if exn.errno != errno.EEXIST: raise`
MkdirRaises(e) == e \notin {"OK", "EEXIST"}

\* what func(p) answers, for the functions shutil.rmtree calls.  Removing an
\* entry needs write permission on its directory (POSIX), or an entry that
\* is not read-only (Windows).
Errno(fs, plat, func, p) ==
    IF ~Exists(fs, p) THEN "ENOENT"
    ELSE IF func = "os.lstat" THEN "OK"
    ELSE IF (plat = "posix" /\ Parent(p) \in fs.ro)
            \/ (plat = "windows" /\ p \in fs.ro)
    THEN "EACCES"
    ELSE IF func = "os.rmdir" /\ Children(fs, p) # {} THEN "ENOTEMPTY"
    ELSE "OK"

\* the filesystem after func(p) has succeeded
Effect(fs, func, p) ==
    IF func = "os.lstat" THEN fs
    ELSE [dirs |-> fs.dirs \ {p}, files |-> fs.files \ {p}, ro |-> fs.ro \ {p}]

PermErrnos == {"EACCES", "EPERM"}

\* `os.stat(file_name).st_mode & stat.S_IREAD`: the owner may read every entry
OwnerRead(fs, file_name) == TRUE

is_readonly_path(fs, file_name) ==
    IF Exists(fs, file_name)
    THEN OwnerRead(fs, file_name) \/ file_name \in fs.ro
    ELSE FALSE

set_write_bit(fs, file_name) ==
    IF ~Exists(fs, file_name) THEN fs
    ELSE [fs EXCEPT !.ro = @ \ {file_name}]

\* handle_remove_readonly(func, path, exc), exc carrying errno: the
\* filesystem it leaves and what it did
handle_remove_readonly(fs, plat, func, path, errno) ==
    LET retried == is_readonly_path(fs, path)
        fs1 == IF retried THEN set_write_bit(fs, path) ELSE fs
        retry == IF retried THEN Errno(fs1, plat, func, path) ELSE "none"
        fs2 == IF retry = "OK" THEN Effect(fs1, func, path) ELSE fs1
        h == [func |-> func, path |-> path, errno |-> errno,
              retried |-> retried, retry |-> retry]
    IN  IF retry \in PermErrnos
        THEN [fs |-> fs2,
              h |-> h @@ [warned |-> TRUE, outcome |-> "return"]]
        ELSE IF errno \in PermErrnos
        THEN [fs |-> fs2,
              h |-> h @@ [warned |-> TRUE, outcome |-> "return"]]
        ELSE [fs |-> fs2,
              h |-> h @@ [warned |-> FALSE, outcome |-> "raise"]]

\* shutil.rmtree's `try: func(path)  except OSError: onerror(func, path, ...)`
\* with ignore_errors=True shutil puts a function that does nothing in the
\* place of the onerror it was given
Attempt(fs, plat, func, path, ignore_errors) ==
    LET e == Errno(fs, plat, func, path) IN
    IF e = "OK"
    THEN [fs |-> Effect(fs, func, path), h |-> NoHandler, exc |-> "none"]
    ELSE IF ignore_errors
    THEN [fs |-> fs, h |-> NoHandler, exc |-> "none"]
    ELSE \* the bare `raise` of the handler re-raises what rmtree caught
         LET r == handle_remove_readonly(fs, plat, func, path, e) IN
         [fs |-> r.fs, h |-> r.h,
          exc |-> IF r.h.outcome = "raise" THEN e ELSE "none"]

Top == calls[Len(calls)]

Popped == SubSeq(calls, 1, Len(calls) - 1)

\* a call begins: what the last one did becomes history
StartOp ==
    /\ calls = <<>>
    /\ nFsOps < MaxFsOps
    /\ nFsOps' = nFsOps + 1
    /\ before' = Fs
    /\ prev' = [name |-> fsOp.name, path |-> fsOp.path, exc |-> fsExc,
                made |-> IF fsOp.name = "none" THEN 0
                         ELSE Cardinality(dirs \ before.dirs)]

\* the directory in which mkdir_p(path) has to make its first new directory
\* is one the process may write in
MayCreate(fs, path) ==
    \A q \in Prefixes(path.segs) :
        (~Exists(fs, q) /\ Parent(q) \in fs.dirs) => Parent(q) \notin fs.ro

MkdirArgs == {[segs |-> p, slash |-> b] : p \in FsPaths, b \in BOOLEAN}

\* mkdir_p(newdir) is called
MkdirCall(newdir) ==
    /\ StartOp
    /\ MayCreate(Fs, newdir)
    /\ fsOp' = [name |-> "mkdir_p", path |-> newdir, ignore_errors |-> FALSE]
    /\ calls' = <<[newdir |-> newdir, pc |-> "isdir"]>>
    /\ fsExc' = "none"
    /\ handler' = NoHandler
    /\ warned' = 0
    /\ UNCHANGED <<dirs, files, ro, platform, chVars, prRest>>

\* `if os.path.isdir(newdir): pass`
MkIsdir ==
    /\ fsOp.name = "mkdir_p"
    /\ calls # <<>>
    /\ Top.pc = "isdir"
    /\ calls' = IF isdir(Fs, Top.newdir) THEN Popped
                ELSE [calls EXCEPT ![Len(calls)].pc = "isfile"]
    /\ UNCHANGED <<dirs, files, ro, platform, fsOp, fsExc, before, prev,
                   handler, warned, nFsOps, chVars, prRest>>

\* `elif os.path.isfile(newdir): raise OSError(...)`; no frame catches it
MkIsfile ==
    /\ fsOp.name = "mkdir_p"
    /\ calls # <<>>
    /\ Top.pc = "isfile"
    /\ IF isfile(Fs, Top.newdir)
       THEN /\ calls' = <<>>
            /\ fsExc' = "OSError"
       ELSE /\ calls' = [calls EXCEPT ![Len(calls)].pc = "head"]
            /\ UNCHANGED fsExc
    /\ UNCHANGED <<dirs, files, ro, platform, fsOp, before, prev, handler,
                   warned, nFsOps, chVars, prRest>>

\* `head, tail = os.path.split(newdir)` and the recursive call for head
MkHead ==
    /\ fsOp.name = "mkdir_p"
    /\ calls # <<>>
    /\ Top.pc = "head"
    /\ LET head == split(Top.newdir).head
           here == [calls EXCEPT ![Len(calls)].pc = "mkdir"]
       IN  calls' = IF MakeParents(Fs, head)
                    THEN Append(here, [newdir |-> head, pc |-> "isdir"])
                    ELSE here
    /\ UNCHANGED <<dirs, files, ro, platform, fsOp, fsExc, before, prev,
                   handler, warned, nFsOps, chVars, prRest>>

\* `if tail: try: os.mkdir(newdir) except OSError ...`, then the return
MkMkdir ==
    /\ fsOp.name = "mkdir_p"
    /\ calls # <<>>
    /\ Top.pc = "mkdir"
    /\ LET e == IF split(Top.newdir).tail # ""
                THEN os_mkdir(Fs, Top.newdir.segs) ELSE "OK"
       IN  /\ dirs' = IF split(Top.newdir).tail # "" /\ e = "OK"
                      THEN dirs \cup {Top.newdir.segs} ELSE dirs
           /\ IF MkdirRaises(e)
              THEN /\ calls' = <<>>
                   /\ fsExc' = e
              ELSE /\ calls' = Popped
                   /\ UNCHANGED fsExc
    /\ UNCHANGED <<files, ro, platform, fsOp, before, prev, handler, warned,
                   nFsOps, chVars, prRest>>

\* what an attempt of shutil.rmtree leaves: the frames `rest` if it goes on
AfterAttempt(r, rest, warnedSoFar, handlerSoFar) ==
    /\ dirs' = r.fs.dirs
    /\ files' = r.fs.files
    /\ ro' = r.fs.ro
    /\ handler' = IF r.h = NoHandler THEN handlerSoFar ELSE r.h
    /\ warned' = warnedSoFar + (IF r.h.warned THEN 1 ELSE 0)
    /\ fsExc' = r.exc
    /\ calls' = IF r.exc # "none" THEN <<>> ELSE rest

\* rmtree(directory, ignore_errors) is called, for a directory or for a path
\* that does not exist: shutil.rmtree looks at the path, then lists it
RmtreeCall(directory, ignore_errors) ==
    /\ StartOp
    /\ directory \notin files
    /\ fsOp' = [name |-> "rmtree",
                path |-> [segs |-> directory, slash |-> FALSE],
                ignore_errors |-> ignore_errors]
    /\ AfterAttempt(Attempt(Fs, platform, "os.lstat", directory, ignore_errors),
                    IF directory \in dirs
                    THEN <<[path |-> directory,
                            todo |-> Children(Fs, directory)]>>
                    ELSE <<>>,
                    0, NoHandler)
    /\ UNCHANGED <<platform, chVars, prRest>>

\* the next entry is a regular file: os.unlink(entry)
RmUnlink(entry) ==
    /\ fsOp.name = "rmtree"
    /\ calls # <<>>
    /\ entry \in Top.todo
    /\ entry \in files
    /\ AfterAttempt(Attempt(Fs, platform, "os.unlink", entry,
                            fsOp.ignore_errors),
                    [calls EXCEPT ![Len(calls)].todo = @ \ {entry}],
                    warned, handler)
    /\ UNCHANGED <<platform, fsOp, before, prev, nFsOps, chVars, prRest>>

\* the next entry is a directory: shutil.rmtree removes it recursively
RmDescend(entry) ==
    /\ fsOp.name = "rmtree"
    /\ calls # <<>>
    /\ entry \in Top.todo
    /\ entry \in dirs
    /\ calls' = Append([calls EXCEPT ![Len(calls)].todo = @ \ {entry}],
                       [path |-> entry, todo |-> Children(Fs, entry)])
    /\ UNCHANGED <<dirs, files, ro, platform, fsOp, fsExc, before, prev,
                   handler, warned, nFsOps, chVars, prRest>>

\* every entry of the directory has been tried: os.rmdir(path)
RmRmdir ==
    /\ fsOp.name = "rmtree"
    /\ calls # <<>>
    /\ Top.todo = {}
    /\ AfterAttempt(Attempt(Fs, platform, "os.rmdir", Top.path,
                            fsOp.ignore_errors),
                    Popped, warned, handler)
    /\ UNCHANGED <<platform, fsOp, before, prev, nFsOps, chVars, prRest>>

FsInit ==
    /\ cwd = Root
    /\ ChdirIdle
    /\ ProcessHalted
    /\ \E E \in EntrySets(MaxEntries) : \E D \in SUBSET E :
         /\ \A p \in E : Len(p) > 1 => Parent(p) \in D
         /\ dirs = D
         /\ files = E \ D
         /\ ro \in SUBSET E
    /\ platform \in {"posix", "windows"}
    /\ fsOp = NoFsOp
    /\ calls = <<>>
    /\ fsExc = "none"
    /\ before = NoFs
    /\ prev = NoPrev
    /\ handler = NoHandler
    /\ warned = 0
    /\ nFsOps = 0
    /\ other = NoOther
    /\ GitIdle

FsNext ==
    \/ \E newdir \in MkdirArgs :
         MkdirCall(newdir) /\ UNCHANGED <<other, gitVars>>
    \/ MkIsdir /\ UNCHANGED <<other, gitVars>>
    \/ MkIsfile /\ UNCHANGED <<other, gitVars>>
    \/ MkHead /\ UNCHANGED <<other, gitVars>>
    \/ MkMkdir /\ UNCHANGED <<other, gitVars>>
    \/ \E directory \in FsPaths, ignore_errors \in BOOLEAN :
         RmtreeCall(directory, ignore_errors) /\ UNCHANGED <<other, gitVars>>
    \/ \E entry \in FsPaths : RmUnlink(entry) /\ UNCHANGED <<other, gitVars>>
    \/ \E entry \in FsPaths : RmDescend(entry) /\ UNCHANGED <<other, gitVars>>
    \/ RmRmdir /\ UNCHANGED <<other, gitVars>>

SpecFs == FsInit /\ [][FsNext]_vars

(***************************************************************************)
(* mkdir_p while another process creates and removes directories on the    *)
(* path: its steps fall between the system calls of mkdir_p.               *)
(***************************************************************************)
MaxOther == 2

\* the other process has steps left during this call of mkdir_p
OtherMayStep ==
    /\ fsOp.name = "mkdir_p"
    /\ calls # <<>>
    /\ Cardinality(other.made) + Cardinality(other.removed) < MaxOther

\* the other process makes directory p, on the path mkdir_p is to create
OtherMkdir(p) ==
    /\ OtherMayStep
    /\ p \in Prefixes(fsOp.path.segs)
    /\ os_mkdir(Fs, p) = "OK"
    /\ dirs' = dirs \cup {p}
    /\ other' = [other EXCEPT !.made = @ \cup {p}]
    /\ UNCHANGED <<files, ro, platform, fsOp, calls, fsExc, before, prev,
                   handler, warned, nFsOps, chVars, prRest, gitVars>>

\* the other process removes the empty directory p on that path
OtherRmdir(p) ==
    /\ OtherMayStep
    /\ p \in Prefixes(fsOp.path.segs)
    /\ p \in dirs
    /\ Children(Fs, p) = {}
    /\ dirs' = dirs \ {p}
    /\ ro' = ro \ {p}
    /\ other' = [other EXCEPT !.removed = @ \cup {p}]
    /\ UNCHANGED <<files, platform, fsOp, calls, fsExc, before, prev, handler,
                   warned, nFsOps, chVars, prRest, gitVars>>

\* what the os.mkdir of the step MkMkdir answers ("OK" when tail is empty
\* and it is not called)
MkdirAnswer ==
    IF split(Top.newdir).tail # "" THEN os_mkdir(Fs, Top.newdir.segs) ELSE "OK"

RaceInit ==
    /\ FsInit
    /\ platform = "posix"

RaceNext ==
    \/ \E newdir \in MkdirArgs :
         \* one call of mkdir_p is raced
         /\ nFsOps = 0
         /\ MkdirCall(newdir)
         /\ other' = NoOther
         /\ UNCHANGED gitVars
    \/ MkIsdir /\ UNCHANGED <<other, gitVars>>
    \/ MkIsfile /\ UNCHANGED <<other, gitVars>>
    \/ MkHead /\ UNCHANGED <<other, gitVars>>
    \/ /\ MkMkdir
       /\ other' = [other EXCEPT !.errnos = Append(@, MkdirAnswer)]
       /\ UNCHANGED gitVars
    \/ \E p \in FsPaths : OtherMkdir(p)
    \/ \E p \in FsPaths : OtherRmdir(p)

SpecRace == RaceInit /\ [][RaceNext]_vars

(***************************************************************************)
(* git.py: github_latest_release, one answer to the prompt at a time, and  *)
(* git_clone / clone_git_repos.                                            *)
(***************************************************************************)
MaxAssets == 2

MaxPrompts == 3

MaxClones == 2

\* the integers whose numerals the user may type
Numerals == (0 - 2)..(MaxAssets + 1)

\* what the user may answer to `input("Enter number of choice: ")`
Answers == {ToString(n) : n \in Numerals} \cup {"", "abc", "1.5"}

\* int(choice) raises ValueError
ValueError(s) == ~\E n \in Numerals : ToString(n) = s

\* int(choice)
int(s) == CHOOSE n \in Numerals : ToString(n) = s

\* assets[i] once the menu loop has fetched the n assets: the number of the
\* asset a Python list hands out for index i, 0 for IndexError
GetItem(n, i) ==
    IF 0 <= i /\ i < n THEN i + 1
    ELSE IF i < 0 /\ 0 - i <= n THEN n + i + 1
    ELSE 0

\* github_latest_release returns v
ReleaseReturn(v) ==
    /\ relRet' = v
    /\ relPc' = "done"
    /\ gitRet' = "returned"

\* github_latest_release(args) up to its first input(): token, the
\* already-installed check, the asset list, the menu
ReleaseStart ==
    /\ relPc = "start"
    /\ gitRet = "none"
    /\ IF ~gitEnv.token THEN ReleaseReturn(1) /\ UNCHANGED menu
       ELSE IF "name" \in gitEnv.onPath /\ ~relArgs.force
       THEN ReleaseReturn(1) /\ UNCHANGED menu
       ELSE IF gitEnv.totalCountNone THEN ReleaseReturn(1) /\ UNCHANGED menu
       ELSE /\ menu' = 1 + gitEnv.assets
            /\ relPc' = "prompt"
            /\ UNCHANGED <<relRet, gitRet>>
    /\ UNCHANGED <<gitEnv, relArgs, prompts, choice, file, relExc, downloaded,
                   defaultArgs, clones>>

\* one round of the `while True:` loop, and what follows the loop when the
\* round ends it
ReleaseInput(answer) ==
    /\ relPc = "prompt"
    /\ prompts < MaxPrompts
    /\ prompts' = prompts + 1
    /\ choice' = answer
    /\ IF answer = ""
       THEN /\ ReleaseReturn(1)
            /\ UNCHANGED <<file, relExc, downloaded>>
       ELSE IF ValueError(answer) \/ GetItem(gitEnv.assets, int(answer) - 1) = 0
       THEN UNCHANGED <<relPc, file, relRet, relExc, downloaded, gitRet>>
       ELSE /\ file' = GetItem(gitEnv.assets, int(answer) - 1)
            /\ IF relArgs.hasDest
               THEN /\ downloaded' = file'
                    /\ ReleaseReturn(0)
                    /\ UNCHANGED relExc
               ELSE /\ relExc' = "AttributeError"
                    /\ relPc' = "crashed"
                    /\ gitRet' = "raised"
                    /\ UNCHANGED <<relRet, downloaded>>
    /\ UNCHANGED <<gitEnv, relArgs, menu, defaultArgs, clones>>

\* dest_path=None
None == "None"

\* the repositories and destinations the model clones
Repos == {"dotfiles", "git@github.com:me/vimrc.git"}

Dests == {"", "~/src/y", None}

\* `repo[0:4] in ("git@", "http")`
IsUrl(repo) == repo \in {"git@github.com:me/vimrc.git", "https://github.com/x/y"}

\* the repository git_clone hands to git
RepoUrl(repo) ==
    IF IsUrl(repo) THEN repo
    ELSE IF repo = "dotfiles" THEN "git@github.com:comfortablynick/dotfiles.git"
    ELSE "git@github.com:comfortablynick/" \o repo \o ".git"

\* os.path.expanduser(path)
expanduser(path) == IF path = "~/src/y" THEN "/home/me/src/y" ELSE path

\* the state git_clone works on
GitSt == [defaultArgs |-> defaultArgs, clones |-> clones, exc |-> "none"]

\* the list `args` is bound to: the default object, or the caller's own
ArgsList(st, given) == IF given = <<>> THEN st.defaultArgs ELSE given[1]

\* `args.append(os.path.expanduser(dest_path))`: the list grows in place
Appended(args, dest_path) ==
    IF dest_path # None THEN Append(args, expanduser(dest_path)) ELSE args

\* git_clone(repo, dest_path, args): `given` is <<>> when the call relies on
\* the default args, <<list>> when it passes its own
git_clone(st0, repo, dest_path, given) ==
    The({IF st.exc # "none" THEN st
         ELSE IF "git" \notin gitEnv.onPath
         THEN [st EXCEPT !.clones =
                   Append(@, [repo |-> repo, dest_path |-> dest_path,
                              default |-> given = <<>>, cmd |-> <<>>,
                              ran |-> FALSE])]
         ELSE [defaultArgs |-> IF given = <<>>
                               THEN Appended(st.defaultArgs, dest_path)
                               ELSE st.defaultArgs,
               clones |->
                   Append(st.clones,
                          [repo |-> repo, dest_path |-> dest_path,
                           default |-> given = <<>>,
                           cmd |-> <<"git", "clone", RepoUrl(repo)>> \o
                                   Appended(ArgsList(st, given), dest_path),
                           ran |-> gitEnv.gitDir]),
               exc |-> IF gitEnv.gitDir THEN "none"
                       ELSE "FileNotFoundError"] :
         st \in {st0}})

\* the loop of clone_git_repos over the repositories to clone
RECURSIVE clone_each(_, _)
clone_each(st, repos) ==
    IF repos = <<>> THEN st
    ELSE clone_each(git_clone(st, repos[1], "", <<>>), Tail(repos))

\* the function has come back: its effects become the process's state
GitCommit(s) ==
    /\ defaultArgs' = s.defaultArgs
    /\ clones' = s.clones
    /\ gitRet' = IF s.exc = "none" THEN "returned" ELSE "raised"
    /\ UNCHANGED <<gitEnv, relArgs, relPc, menu, prompts, choice, file,
                   relRet, relExc, downloaded>>

\* a caller's git_clone(repo, dest_path) or git_clone(repo, dest_path, args)
GitClone(repo, dest_path, given) ==
    /\ relPc = "start"
    /\ gitRet # "raised"
    /\ Len(clones) < MaxClones
    /\ \E s \in {git_clone(GitSt, repo, dest_path, given)} : GitCommit(s)

\* the ssh urls of the user's repositories without .provision_ignore
RepoLists == {<<>>, <<"git@github.com:me/vimrc.git">>,
              <<"git@github.com:me/vimrc.git", "git@github.com:me/vimrc.git">>}

\* clone_git_repos(args)
CloneGitRepos(repos) ==
    /\ relPc = "start"
    /\ gitRet = "none"
    /\ Len(clones) + Len(repos) <= MaxClones
    /\ \E s \in {IF gitEnv.token THEN clone_each(GitSt, repos) ELSE GitSt} :
         GitCommit(s)

GitEnvs ==
    [token : BOOLEAN, onPath : SUBSET {"git", "name"}, gitDir : BOOLEAN,
     assets : 0..MaxAssets, totalCountNone : BOOLEAN]

GitInit ==
    /\ cwd = Root
    /\ ChdirIdle
    /\ ProcessIdle
    /\ FsIdle
    /\ gitEnv \in GitEnvs
    /\ relArgs \in [force : BOOLEAN, hasDest : BOOLEAN]
    /\ relPc = "start"
    /\ menu = 0
    /\ prompts = 0
    /\ choice = ""
    /\ file = 0
    /\ relRet = 0 - 1
    /\ relExc = "none"
    /\ downloaded = 0
    /\ defaultArgs = FreshArgs
    /\ clones = <<>>
    /\ gitRet = "none"

GitNext ==
    \/ ReleaseStart /\ UNCHANGED <<chVars, prVars, fsVars, other>>
    \/ \E answer \in Answers :
         ReleaseInput(answer) /\ UNCHANGED <<chVars, prVars, fsVars, other>>
    \/ \E repo \in Repos, dest_path \in Dests,
          given \in {<<>>, <<<<"--depth", "1">>>>} :
         GitClone(repo, dest_path, given)
         /\ UNCHANGED <<chVars, prVars, fsVars, other>>
    \/ \E repos \in RepoLists :
         CloneGitRepos(repos) /\ UNCHANGED <<chVars, prVars, fsVars, other>>

SpecGit == GitInit /\ [][GitNext]_vars

\* the most recent operation was an installer routine that got past its
\* already-installed check
PassedCheck ==
    /\ last.op = "install"
    /\ ~(Binary(last.prog) \in last.onPath /\ ~namespace.force)

\* the most recent operation was an installer routine whose binary was found
StoppedByCheck ==
    /\ last.op = "install"
    /\ Binary(last.prog) \in last.onPath
    /\ ~namespace.force

AptInstallCmd == <<"sudo", "apt", "install", "-y">>

\* C1: in one process `sudo apt update -y` is run exactly once however many
\* operations need a fresh index: by the first call of _update_cache and by no
\* later one, and CACHE_UPDATED never goes back from true to false.
C1_RefreshOnce ==
    /\ refreshes = (IF updCalls > 0 THEN 1 ELSE 0)
    /\ (last.cacheBefore => CACHE_UPDATED)
    /\ (last.cacheBefore => Count(last.cmds, AptUpdateCmd) = 0)
    /\ ((last.updCalls > 0 /\ last.exc = "none") => CACHE_UPDATED)

\* a second operation needed a fresh index, found the flag set and ran no
\* refresh: the one refresh of the process was the first operation's
C1_Witness ==
    /\ nOps = 2
    /\ last.cacheBefore
    /\ last.updCalls > 0
    /\ updCalls >= 4
    /\ refreshes = 1
    /\ CACHE_UPDATED

\* C4: once an installer routine is past its already-installed check, its
\* temporary build directory does not exist when the routine returns or fails.
C4_TmpDirRemoved == PassedCheck => TmpDir(last.prog) \notin dirs

\* C5: an installer routine whose binary is found while force is false runs no
\* external command, creates and removes no directory and returns 1; with
\* force set the check does not stop it.
C5_AlreadyInstalledSkips ==
    /\ StoppedByCheck =>
         /\ last.cmds = <<>>
         /\ dirs = last.dirsBefore
         /\ last.exc = "none"
         /\ last.returned
         /\ last.ret = 1
         /\ last.updCalls = 0
    /\ (last.op = "install" /\ Binary(last.prog) \in last.onPath
        /\ namespace.force) =>
         ~(last.returned /\ last.ret = 1 /\ last.cmds = <<>>)

\* tmux was found, force was off, a stale /tmp/tmux was lying around: the
\* routine returned 1 and touched nothing
C5_Witness ==
    /\ StoppedByCheck
    /\ last.prog = "tmux"
    /\ TmpDir("tmux") \in dirs
    /\ last.ret = 1
    /\ last.cmds = <<>>

\* C6: with apt-get not on the search path apt.install runs no external
\* command (no index refresh either), reads no package-list file and returns
\* a non-zero value.
C6_NoManagerSkips ==
    (last.op = "apt.install" /\ "apt-get" \notin last.onPath) =>
        /\ last.cmds = <<>>
        /\ last.reads = 0
        /\ last.returned
        /\ last.ret # 0

\* C7: apt.install never runs the install command with an empty package
\* list: with no package from the caller or the command line and none from
\* the package-list file it returns a non-zero value instead.
C7_NoEmptyInstall ==
    last.op = "apt.install" =>
        /\ Count(last.cmds, AptInstallCmd) = 0
        /\ ("apt-get" \in last.onPath /\ namespace.hasPackages
            /\ namespace.packages = <<>> /\ pkgFile.lines = <<>>
            /\ last.exc = "none") =>
             (last.returned /\ last.ret # 0)

\* C8: the exit status of the CLI is 1 when the dispatched function reported
\* a failure (a non-zero return of apt.install or of an installer routine)
\* and 0 only when it succeeded.
C8_ExitStatusReportsFailure ==
    (command \in {"apt install", "apt update", "install"} /\ pc = "done"
     /\ last.op \in {"apt.install", "install"} /\ last.returned) =>
        /\ last.ret # 0 => exitStatus = 1
        /\ exitStatus = 0 => last.ret = 0

\* C2: whenever a chdir block is left (by its end, by a return or by an error
\* raised inside it) the working directory is again the one that was current
\* before that block was entered, and when the block was nested in another
\* chdir block that is the directory the enclosing block had set.
C2_NestedRestore ==
    [][Len(stack') < Len(stack) =>
         /\ cwd' = stack[Len(stack)].entry
         /\ (Len(stack) >= 2 => cwd' = stack[Len(stack) - 1].target)]_vars

\* an inner block was left by an error while the outer block is still live,
\* and the working directory is the outer block's, not the start directory
C2_Witness ==
    /\ lastExit.kind = "raise"
    /\ lastExit.depth = 2
    /\ Len(stack) = 1
    /\ cwd = stack[1].target
    /\ cwd = Fish
    /\ stack[1].entry = Home

\* C3: chdir with an empty or absent path is a no-op: the body runs, the
\* working directory does not change and the context raises nothing.
C3_EmptyPathNoop ==
    (lastEnter.seen /\ Falsy(lastEnter.path)) =>
        /\ lastEnter.ran
        /\ lastEnter.error = "none"
        /\ lastEnter.after = lastEnter.before


\* a call of mkdir_p or rmtree has come back to its caller
FsReturned(name) == fsOp.name = name /\ calls = <<>>

\* C9: for every directory D that contains at least one read-only file,
\* rmtree(D), with or without ignore_errors, returns without raising and D
\* does not exist afterwards.
C9_RmtreeRemovesReadOnly ==
    (/\ FsReturned("rmtree")
     /\ fsOp.path.segs \in before.dirs
     /\ \E f \in before.files \cap before.ro : IsPrefix(fsOp.path.segs, f)) =>
        /\ fsExc = "none"
        /\ fsOp.path.segs \notin dirs

\* C10: when the last k >= 2 segments of P do not exist and the prefix that
\* exists is a directory, mkdir_p(P) returns with P and every missing
\* ancestor made a directory and nothing else changed; mkdir_p of a path
\* that is a directory, a second mkdir_p(P) included, returns and changes
\* nothing.
C10_MkdirCreatesAll ==
    FsReturned("mkdir_p") =>
        /\ (/\ Prefixes(fsOp.path.segs) \cap before.files = {}
            /\ Cardinality(Prefixes(fsOp.path.segs) \ before.dirs) >= 2) =>
               /\ fsExc = "none"
               /\ dirs = before.dirs \cup Prefixes(fsOp.path.segs)
               /\ files = before.files
               /\ ro = before.ro
        /\ fsOp.path.segs \in before.dirs =>
               /\ fsExc = "none"
               /\ Fs = before

\* mkdir_p(P) made the last two of P's three directories, and a second
\* mkdir_p(P) has returned
C10_Witness ==
    /\ FsReturned("mkdir_p")
    /\ Len(fsOp.path.segs) = 3
    /\ prev.name = "mkdir_p"
    /\ prev.path = fsOp.path
    /\ prev.exc = "none"
    /\ prev.made = 2
    /\ fsExc = "none"
    /\ Fs = before


\* C11: when P or one of its ancestors is a regular file, mkdir_p(P) raises
\* the OSError of the path conflict and the filesystem is as it was: nothing
\* is created.
C11_FileInTheWay ==
    (/\ FsReturned("mkdir_p")
     /\ Prefixes(fsOp.path.segs) \cap before.files # {}) =>
        /\ fsExc = "OSError"
        /\ Fs = before

\* mkdir_p(P) has failed for a missing P of three segments whose first
\* segment is a regular file
C11_Witness ==
    /\ FsReturned("mkdir_p")
    /\ Len(fsOp.path.segs) = 3
    /\ SubSeq(fsOp.path.segs, 1, 1) \in before.files
    /\ fsExc = "OSError"
    /\ Fs = before


\* the answer is the numeral of an integer in 1..n
ValidChoice(answer, n) == ~ValueError(answer) /\ int(answer) \in 1..n

\* C12: with a menu of N >= 1 assets, an answer that is not an integer in
\* 1..N selects nothing and the prompt is shown again; an integer in 1..N
\* selects exactly that asset and ends the loop; the empty answer cancels with
\* a non-zero return and nothing downloaded.
C12_MenuRejectsInvalid ==
    (prompts > 0 /\ gitEnv.assets >= 1) =>
        /\ choice = "" =>
               /\ relPc = "done"
               /\ relRet # 0
               /\ file = 0
               /\ downloaded = 0
        /\ (choice # "" /\ ~ValidChoice(choice, gitEnv.assets)) =>
               /\ file = 0
               /\ relPc = "prompt"
        /\ ValidChoice(choice, gitEnv.assets) =>
               /\ file = int(choice)
               /\ relPc # "prompt"

\* C13: when the latest release has no assets, github_latest_release returns
\* non-zero before any menu line is printed or any input is requested, and
\* nothing is downloaded.
C13_NoAssetsFails ==
    (gitEnv.assets = 0 /\ relPc # "start") =>
        /\ relPc = "done"
        /\ relRet > 0
        /\ menu = 0
        /\ prompts = 0
        /\ downloaded = 0

\* C18: every git_clone call that relies on the default args runs exactly
\* git clone <repo> --recursive <expanded dest_path>, whatever calls came
\* before it.
C18_CloneArgsFresh ==
    \A i \in DOMAIN clones :
        (clones[i].default /\ clones[i].dest_path # None
         /\ clones[i].cmd # <<>>) =>
            clones[i].cmd = <<"git", "clone", RepoUrl(clones[i].repo),
                              "--recursive", expanduser(clones[i].dest_path)>>


\* the installer routines that install build dependencies first
DepPrograms == {"lpass", "fish", "tmux", "mosh", "neovim", "nnn"}

\* the positions in the latest operation's commands of those named key
Positions(key) == {i \in DOMAIN last.cmds : Key(last.cmds[i]) = key}

\* C14: an installer routine with a dependency list, dispatched by the CLI
\* `install <program>` with the binary absent or force set and every external
\* command succeeding, runs apt install with exactly its dependency list
\* before it clones, clones before the install step that ends the build, and
\* returns 0 with the temporary directory removed.
C14_DepsThenCloneThenBuild ==
    (/\ command = "install"
     /\ PassedCheck
     /\ last.prog \in DepPrograms
     /\ last.fault = NoFault
     /\ "apt-get" \in last.onPath) =>
        /\ last.exc = "none"
        /\ last.returned
        /\ last.ret = 0
        /\ \E i, j \in DOMAIN last.cmds :
             /\ last.cmds[i] = AptInstallCmd \o Deps(last.prog)
             /\ Key(last.cmds[j]) = <<"git", "clone">>
             /\ i < j
             /\ j < Len(last.cmds)
             /\ \A k \in Positions(<<"git", "clone">>) : i < k
        /\ TmpDir(last.prog) \notin dirs

\* the installer routines that run ./configure
ConfigurePrograms == {"ctags", "tmux", "mosh", "vcprompt"}

\* C15: when ./configure exits non-zero in ctags, tmux, mosh or vcprompt,
\* neither make nor sudo make install is run after it and the routine returns
\* non-zero.
C15_ConfigureFailureStops ==
    (/\ last.op = "install"
     /\ last.prog \in ConfigurePrograms
     /\ <<"./configure">> \in last.fault.failing
     /\ Positions(<<"./configure">>) # {}) =>
        /\ \A i \in Positions(<<"./configure">>) :
             \A j \in DOMAIN last.cmds :
                 j > i => /\ last.cmds[j] # <<"make">>
                          /\ last.cmds[j] # <<"sudo", "make", "install">>
        /\ last.returned
        /\ last.ret # 0


\* C16: in rmtree without ignore_errors, when a removal fails with EACCES or
\* EPERM the handler makes the entry writable and retries once; it warns only
\* if the retry fails with a permission error, not when the retry succeeds,
\* and returns so that the removal goes on; a failure of another class, of
\* the first attempt or of the retry, leaves rmtree as an exception.
C16_RetryThenWarn ==
    (fsOp.name = "rmtree" /\ ~fsOp.ignore_errors /\ handler # NoHandler) =>
        /\ handler.errno \in PermErrnos =>
               /\ handler.retried
               /\ handler.warned <=> handler.retry \in PermErrnos
        /\ (handler.errno \in PermErrnos
            /\ handler.retry \in PermErrnos \cup {"OK"}) =>
               handler.outcome = "return"
        /\ (handler.errno \notin PermErrnos
            \/ handler.retry \notin PermErrnos \cup {"OK", "none"}) =>
               /\ handler.outcome = "raise"
               /\ fsExc # "none"


\* C17: when another process creates P or missing ancestors of P, and
\* removes nothing, between the system calls of mkdir_p(P), mkdir_p(P) still
\* returns and P is a directory; when os.mkdir fails with an errno other than
\* EEXIST, that error is raised to the caller.
C17_BenignRace ==
    FsReturned("mkdir_p") =>
        /\ (/\ other.made # {}
            /\ other.removed = {}
            /\ Prefixes(fsOp.path.segs) \cap before.files = {}) =>
               /\ fsExc = "none"
               /\ fsOp.path.segs \in dirs
        /\ \A i \in DOMAIN other.errnos :
               other.errnos[i] \notin {"OK", "EEXIST"} =>
                   fsExc = other.errnos[i]

\* os.mkdir(P) has answered EEXIST for a directory the other process made
\* after mkdir_p(P) was called, and mkdir_p(P) has returned
C17_Witness ==
    /\ FsReturned("mkdir_p")
    /\ fsOp.path.segs \in other.made
    /\ other.removed = {}
    /\ \E i \in DOMAIN other.errnos : other.errnos[i] = "EEXIST"
    /\ fsExc = "none"
    /\ fsOp.path.segs \in dirs

====
